---- MODULE Spec2Model ----
(***************************************************************************)
(* A model of aws_s3: S3Config (config.py) and S3Connector (connector.py). *)
(*                                                                         *)
(* Text is a sequence of one-character strings ("" is <<>>), so that       *)
(* str.strip() and int(str) are computed and not assumed.  Python's None   *)
(* is the value None below, which is no text.  A dict (os.environ, the     *)
(* constructor's **kwargs, the keyword arguments handed to boto3) is a     *)
(* function whose DOMAIN is the set of keys present.                       *)
(*                                                                         *)
(* Spec    : the constructor S3Connector.__init__, statement by statement. *)
(* SpecOps : upload_files and delete_files on a constructed connector.     *)
(***************************************************************************)
EXTENDS Integers, Sequences, FiniteSets, TLC

VARIABLES
    environ,     \* os.environ
    args,        \* the constructor's arguments: [config, kwargs]
    pc,          \* index of the next statement of __init__ to execute
    config,      \* self.config
    s3_client,   \* self.s3_client: what boto3 was asked to build
    trace,       \* the statements of __init__ executed so far, in order
    calls,       \* the storage-client calls made so far, in order
    raised,      \* the exception that left the running call, or "None"
    localFiles,  \* the paths for which os.path.isfile is true
    frame,       \* the running upload_files/delete_files call, or Idle
    ret          \* the value the last call returned, or NoResult

vars == <<environ, args, pc, config, s3_client, trace, calls, raised,
          localFiles, frame, ret>>

ctorVars == <<environ, args, pc, config, s3_client, trace>>

----------------------------------------------------------------------------
(* Bounds of the model *)

\* At most this many configuration fields are set in os.environ or passed
\* as keyword arguments in one construction.
MaxTouched == 2

\* Longest aws_region text tried.
MaxRegionLen == 2

\* Longest list handed to upload_files.
MaxFiles == 3

\* Longest list handed to delete_files.
MaxKeys == 2

\* Size of the thread pool of a parallel upload.
MaxWorkers == 2

----------------------------------------------------------------------------
(* Values *)

None == <<"None">>

NoConfig == [absent |-> "config"]
NoClient == [absent |-> "client"]
NoResult == [absent |-> "result"]
Idle     == [state |-> "idle"]

\* Python truthiness of an Optional[str].
Truthy(v) == v # None /\ v # <<>>

\* Python's `a or b`.
Or(a, b) == IF Truthy(a) THEN a ELSE b

RECURSIVE LStrip(_)
LStrip(s) == IF s # <<>> /\ s[1] = " " THEN LStrip(Tail(s)) ELSE s

RECURSIVE RStrip(_)
RStrip(s) ==
    IF s # <<>> /\ s[Len(s)] = " " THEN RStrip(SubSeq(s, 1, Len(s) - 1)) ELSE s

\* str.strip()
Strip(s) == RStrip(LStrip(s))

Digits == {"0", "1", "2", "3", "4", "5", "6", "7", "8", "9"}

DigitVal(c) ==
    CASE c = "0" -> 0 [] c = "1" -> 1 [] c = "2" -> 2 [] c = "3" -> 3
      [] c = "4" -> 4 [] c = "5" -> 5 [] c = "6" -> 6 [] c = "7" -> 7
      [] c = "8" -> 8 [] c = "9" -> 9

IsDigits(s) == s # <<>> /\ \A i \in 1..Len(s) : s[i] \in Digits

RECURSIVE DecimalVal(_)
DecimalVal(s) ==
    IF s = <<>> THEN 0
    ELSE 10 * DecimalVal(SubSeq(s, 1, Len(s) - 1)) + DigitVal(s[Len(s)])

\* Whether int(s) returns (it raises ValueError otherwise).
CanParseInt(s) ==
    LET t == Strip(s)
    IN  IF t # <<>> /\ t[1] \in {"-", "+"} THEN IsDigits(Tail(t)) ELSE IsDigits(t)

\* int(s), for a text int() accepts.
ParseInt(s) ==
    LET t == Strip(s)
    IN  IF t[1] = "-" THEN 0 - DecimalVal(Tail(t))
        ELSE IF t[1] = "+" THEN DecimalVal(Tail(t))
        ELSE DecimalVal(t)

----------------------------------------------------------------------------
(* S3Config *)

Fields ==
    {"s3_bucket_name", "s3_directory", "aws_region", "aws_access_key_id",
     "aws_secret_access_key", "aws_session_token", "aws_profile",
     "max_retries", "timeout"}

IntFields == {"max_retries", "timeout"}

\* The environment variable from_env reads for a field.
EnvVar(f) ==
    CASE f = "s3_bucket_name"        -> "S3_BUCKET_NAME"
      [] f = "s3_directory"          -> "S3_DIRECTORY"
      [] f = "aws_region"            -> "AWS_REGION"
      [] f = "max_retries"           -> "AWS_MAX_RETRIES"
      [] f = "timeout"               -> "AWS_TIMEOUT"
      [] f = "aws_access_key_id"     -> "AWS_ACCESS_KEY_ID"
      [] f = "aws_secret_access_key" -> "AWS_SECRET_ACCESS_KEY"
      [] f = "aws_session_token"     -> "AWS_SESSION_TOKEN"
      [] f = "aws_profile"           -> "AWS_PROFILE"

\* The dataclass defaults of max_retries and timeout.
DefaultMaxRetries == 3
DefaultTimeout == 30

\* The defaults from_env hands to os.environ.get: '3' and '30'.
EnvDefaultMaxRetries == <<"3">>
EnvDefaultTimeout == <<"3", "0">>

\* os.environ.get(name, default)
EnvGet(name, default) == IF name \in DOMAIN environ THEN environ[name] ELSE default

\* S3Config.from_env() raises ValueError when int() rejects a variable.
FromEnvRaises ==
    \/ ~CanParseInt(EnvGet("AWS_MAX_RETRIES", EnvDefaultMaxRetries))
    \/ ~CanParseInt(EnvGet("AWS_TIMEOUT", EnvDefaultTimeout))

\* S3Config.from_env(), when it returns.
FromEnv ==
    [s3_bucket_name        |-> EnvGet("S3_BUCKET_NAME", None),
     s3_directory          |-> EnvGet("S3_DIRECTORY", None),
     aws_region            |-> EnvGet("AWS_REGION", None),
     max_retries           |-> ParseInt(EnvGet("AWS_MAX_RETRIES", EnvDefaultMaxRetries)),
     timeout               |-> ParseInt(EnvGet("AWS_TIMEOUT", EnvDefaultTimeout)),
     aws_access_key_id     |-> EnvGet("AWS_ACCESS_KEY_ID", None),
     aws_secret_access_key |-> EnvGet("AWS_SECRET_ACCESS_KEY", None),
     aws_session_token     |-> EnvGet("AWS_SESSION_TOKEN", None),
     aws_profile           |-> EnvGet("AWS_PROFILE", None)]

\* S3Config.validate(): the message of the ValueError raised, or "ok".
Validate(c) ==
    IF ~Truthy(c.s3_bucket_name) THEN "Bucket cannot be empty"
    ELSE IF ~Truthy(c.s3_directory) THEN "Directory cannot be empty"
    ELSE IF c.max_retries < 0 THEN "Max retries cannot be negative"
    ELSE IF c.timeout <= 0 THEN "Timeout must be a positive number"
    ELSE IF Truthy(c.aws_region) /\ Strip(c.aws_region) = <<>>
         THEN "Region cannot be empty if provided"
    ELSE "ok"

----------------------------------------------------------------------------
(* S3Connector.__init__ *)

\* kwargs.get(f, default)
KwGet(f, default) == IF f \in DOMAIN args.kwargs THEN args.kwargs[f] ELSE default

\* self.config as lines 65-79 assign it (from_env has returned).
ResolveConfig ==
    IF args.config # NoConfig THEN args.config
    ELSE LET env_config == FromEnv
         IN  [s3_bucket_name        |-> KwGet("s3_bucket_name", Or(env_config.s3_bucket_name, <<>>)),
              s3_directory          |-> KwGet("s3_directory", Or(env_config.s3_directory, <<>>)),
              aws_region            |-> KwGet("aws_region", env_config.aws_region),
              aws_access_key_id     |-> KwGet("aws_access_key_id", env_config.aws_access_key_id),
              aws_secret_access_key |-> KwGet("aws_secret_access_key", env_config.aws_secret_access_key),
              aws_session_token     |-> KwGet("aws_session_token", env_config.aws_session_token),
              aws_profile           |-> KwGet("aws_profile", env_config.aws_profile),
              max_retries           |-> KwGet("max_retries", env_config.max_retries),
              timeout               |-> KwGet("timeout", env_config.timeout)]

\* A dict with the entries of d and k: v.
With(d, k, v) == [x \in DOMAIN d \cup {k} |-> IF x = k THEN v ELSE d[x]]

EmptyDict == [x \in {} |-> None]

\* _create_s3_client with the session-token test outside the test of the
\* two keys: the token is passed on whenever it is set.
CreateS3Client_TokenAlone(c) ==
    LET session_kwargs ==
            IF Truthy(c.aws_profile)
            THEN With(EmptyDict, "profile_name", c.aws_profile)
            ELSE EmptyDict
        keys ==
            IF Truthy(c.aws_access_key_id) /\ Truthy(c.aws_secret_access_key)
            THEN With(With(EmptyDict, "aws_access_key_id", c.aws_access_key_id),
                      "aws_secret_access_key", c.aws_secret_access_key)
            ELSE EmptyDict
        creds ==
            IF Truthy(c.aws_session_token)
            THEN With(keys, "aws_session_token", c.aws_session_token)
            ELSE keys
    IN  [session_kwargs |-> session_kwargs,
         client_kwargs  |-> With(creds, "region_name", c.aws_region),
         boto_config    |-> [max_attempts    |-> c.max_retries,
                             connect_timeout |-> c.timeout,
                             read_timeout    |-> c.timeout]]

\* S3Connector._create_s3_client: the arguments given to boto3.Session and
\* to session.client.
CreateS3Client(c) ==
    LET session_kwargs ==
            IF Truthy(c.aws_profile)
            THEN With(EmptyDict, "profile_name", c.aws_profile)
            ELSE EmptyDict
        keys ==
            IF Truthy(c.aws_access_key_id) /\ Truthy(c.aws_secret_access_key)
            THEN LET k == With(With(EmptyDict, "aws_access_key_id", c.aws_access_key_id),
                               "aws_secret_access_key", c.aws_secret_access_key)
                 IN  IF Truthy(c.aws_session_token)
                     THEN With(k, "aws_session_token", c.aws_session_token)
                     ELSE k
            ELSE EmptyDict
    IN  [session_kwargs |-> session_kwargs,
         client_kwargs  |-> With(keys, "region_name", c.aws_region),
         boto_config    |-> [max_attempts    |-> c.max_retries,
                             connect_timeout |-> c.timeout,
                             read_timeout    |-> c.timeout]]

\* What head_bucket can do: return, raise botocore's ClientError, or raise
\* another exception (botocore's EndpointConnectionError, NoCredentialsError
\* and the like are BotoCoreError, not ClientError).
ProbeOutcomes == {"ok", "ClientError", "BotoCoreError"}

\* S3Connector._validate_connection: the exception that leaves it.
ProbeRaises(outcome) ==
    IF outcome = "ok" THEN "None"
    ELSE IF outcome = "ClientError" THEN "AuthenticationError"
    ELSE outcome

\* __init__ with the client created before the configuration is validated.
InitBody_ClientBeforeValidate ==
    <<"resolve", "_create_s3_client", "validate", "_validate_connection">>

\* The statements of __init__ after the signature, in order.
InitBody == <<"resolve", "validate", "_create_s3_client", "_validate_connection">>

Running == raised = "None" /\ pc \in 1..Len(InitBody)

\* The connector is constructed.
Ready == raised = "None" /\ pc = Len(InitBody) + 1

Resolve ==
    /\ Running /\ InitBody[pc] = "resolve"
    /\ trace' = Append(trace, "resolve")
    /\ IF args.config = NoConfig /\ FromEnvRaises
       THEN /\ raised' = "ValueError"
            /\ UNCHANGED <<pc, config>>
       ELSE /\ config' = ResolveConfig
            /\ pc' = pc + 1
            /\ UNCHANGED raised
    /\ UNCHANGED <<environ, args, s3_client, calls, localFiles, frame, ret>>

ValidateConfig ==
    /\ Running /\ InitBody[pc] = "validate"
    /\ trace' = Append(trace, "validate")
    /\ IF Validate(config) # "ok"
       THEN raised' = "ValueError" /\ UNCHANGED pc
       ELSE pc' = pc + 1 /\ UNCHANGED raised
    /\ UNCHANGED <<environ, args, config, s3_client, calls, localFiles, frame, ret>>

CreateClient ==
    /\ Running /\ InitBody[pc] = "_create_s3_client"
    /\ trace' = Append(trace, "_create_s3_client")
    /\ s3_client' = CreateS3Client(config)
    /\ pc' = pc + 1
    /\ UNCHANGED <<environ, args, config, calls, raised, localFiles, frame, ret>>

ValidateConnection ==
    /\ Running /\ InitBody[pc] = "_validate_connection"
    /\ trace' = Append(trace, "_validate_connection")
    /\ \E outcome \in ProbeOutcomes :
          /\ calls' = Append(calls, [fn |-> "head_bucket",
                                     Bucket |-> config.s3_bucket_name,
                                     outcome |-> outcome])
          /\ raised' = ProbeRaises(outcome)
          /\ pc' = IF outcome = "ok" THEN pc + 1 ELSE pc
    /\ UNCHANGED <<environ, args, config, s3_client, localFiles, frame, ret>>

----------------------------------------------------------------------------
(* The constructions tried *)

RECURSIVE TextsUpTo(_, _)
TextsUpTo(chars, n) ==
    IF n = 0 THEN {<<>>}
    ELSE LET shorter == TextsUpTo(chars, n - 1)
         IN  shorter \cup {Append(s, c) : s \in shorter, c \in chars}

RegionValues == {None} \cup TextsUpTo({" ", "r"}, MaxRegionLen)

CredentialValues == {None, <<>>, <<"k">>}

\* Explicit S3Config objects that exercise validate().
ValidationConfigs ==
    [s3_bucket_name        : {None, <<>>, <<"b">>},
     s3_directory          : {None, <<>>, <<"d">>},
     aws_region            : RegionValues,
     aws_access_key_id     : {None},
     aws_secret_access_key : {None},
     aws_session_token     : {None},
     aws_profile           : {None},
     max_retries           : {-1, 0, DefaultMaxRetries},
     timeout               : {-1, 0, DefaultTimeout}]

\* Explicit, valid S3Config objects that exercise _create_s3_client.
CredentialConfigs ==
    [s3_bucket_name        : {<<"b">>},
     s3_directory          : {<<"d">>},
     aws_region            : {None, <<"r">>},
     aws_access_key_id     : CredentialValues,
     aws_secret_access_key : CredentialValues,
     aws_session_token     : CredentialValues,
     aws_profile           : CredentialValues,
     max_retries           : {DefaultMaxRetries},
     timeout               : {DefaultTimeout}]

\* The two values tried for a field's environment variable ...
EnvValue(f, i) ==
    IF f \in IntFields THEN (IF i = 1 THEN <<"7">> ELSE <<"x">>)
    ELSE (IF i = 1 THEN <<"e">> ELSE <<>>)

\* ... and for its keyword argument.
KwValue(f, i) ==
    IF f \in IntFields THEN (IF i = 1 THEN 5 ELSE 0)
    ELSE (IF i = 1 THEN <<"k">> ELSE None)

\* os.environ and kwargs where choice e[f] (k[f]) is 0 for a variable
\* (argument) that is not there.
EnvOf(T, e) ==
    [n \in {EnvVar(f) : f \in {g \in T : e[g] # 0}} |->
        LET f == CHOOSE g \in T : EnvVar(g) = n IN EnvValue(f, e[f])]

KwargsOf(T, k) == [f \in {g \in T : k[g] # 0} |-> KwValue(f, k[f])]

TouchedSets == {T \in SUBSET Fields : Cardinality(T) <= MaxTouched}

InitIdleOps ==
    /\ calls = <<>>
    /\ raised = "None"
    /\ localFiles = {}
    /\ frame = Idle
    /\ ret = NoResult

Init ==
    /\ pc = 1
    /\ config = NoConfig
    /\ s3_client = NoClient
    /\ trace = <<>>
    /\ InitIdleOps
    /\ \/ \E T \in TouchedSets : \E e \in [T -> 0..2], k \in [T -> 0..2] :
             /\ environ = EnvOf(T, e)
             /\ args = [config |-> NoConfig, kwargs |-> KwargsOf(T, k)]
       \/ \E c \in ValidationConfigs \cup CredentialConfigs : \E i \in {0, 2} :
             /\ environ = EnvOf(Fields, [f \in Fields |-> i])
             /\ args = [config |-> c, kwargs |-> KwargsOf(Fields, [f \in Fields |-> i])]

Next ==
    \/ Resolve
    \/ ValidateConfig
    \/ CreateClient
    \/ ValidateConnection

Spec == Init /\ [][Next]_vars

----------------------------------------------------------------------------
(* S3Connector.upload_files and S3Connector.delete_files *)

\* A local path is the sequence of its components.
Paths == {<<"a.txt">>, <<"in", "b.txt">>}

\* os.path.isfile
IsFile(p) == p \in localFiles

\* os.path.basename
Basename(p) == p[Len(p)]

\* os.path.join(self.config.s3_directory, basename).replace("\\", "/")
S3Path(p) == [prefix |-> config.s3_directory, name |-> Basename(p)]

\* What s3_client.upload_file can do: return, raise ClientError, or raise
\* another exception.
TransferOutcomes == {"ok", "ClientError", "Exception"}

ErrNone == [is_none |-> TRUE, items |-> <<>>]
ErrList(items) == [is_none |-> FALSE, items |-> items]

UploadCall(p, outcome) ==
    [fn |-> "upload_file", Filename |-> p, Bucket |-> config.s3_bucket_name,
     Key |-> S3Path(p), outcome |-> outcome]

\* upload_files with no os.path.isfile test.
UploadOne_NoFileTest(p, outcome) ==
    IF outcome = "ok"
    THEN [calls |-> <<UploadCall(p, outcome)>>, raised |-> "None", text |-> "",
          result |-> [success |-> TRUE,
                      message |-> [text |-> "Uploaded to", dest |-> S3Path(p)],
                      error |-> ErrNone]]
    ELSE [calls |-> <<UploadCall(p, outcome)>>, raised |-> "UploadError",
          text |-> "Failed to upload", result |-> NoResult]

\* upload_files(local_path) for one path, lines 164-183, when upload_file
\* ends with `outcome`: the storage calls made, the exception raised with
\* its text, and the result returned.
UploadOne(p, outcome) ==
    IF ~IsFile(p)
    THEN [calls |-> <<>>, raised |-> "UploadError", text |-> "File not found",
          result |-> NoResult]
    ELSE IF outcome = "ok"
    THEN [calls |-> <<UploadCall(p, outcome)>>, raised |-> "None", text |-> "",
          result |-> [success |-> TRUE,
                      message |-> [text |-> "Uploaded to", dest |-> S3Path(p)],
                      error |-> ErrNone]]
    ELSE [calls |-> <<UploadCall(p, outcome)>>, raised |-> "UploadError",
          text |-> IF outcome = "ClientError" THEN "Failed to upload"
                   ELSE "Unexpected error during upload",
          result |-> NoResult]

NoTasks == <<>>

Frame(fn, kind, arg, parallel) ==
    [state |-> "running", fn |-> fn, kind |-> kind, arg |-> arg,
     parallel |-> parallel, i |-> 1, tasks |-> NoTasks,
     files |-> <<>>, results |-> <<>>, errors |-> <<>>]

\* upload_files(path, parallel) for a str: the parallel flag is not read.
UploadSingle ==
    /\ Ready /\ frame = Idle
    /\ \E p \in Paths, par \in BOOLEAN, outcome \in TransferOutcomes :
          LET r == UploadOne(p, outcome)
          IN  /\ calls' = calls \o r.calls
              /\ raised' = r.raised
              /\ ret' = r.result
              /\ frame' = [Frame("upload_files", "str", <<p>>, par) EXCEPT
                              !.state = IF r.raised = "None" THEN "returned" ELSE "raised"]
    /\ UNCHANGED <<ctorVars, localFiles>>

PathLists == UNION {[1..n -> Paths] : n \in 0..MaxFiles}

\* upload_files(list, parallel) is entered; with parallel the executor gets
\* one pending task per item (line 143).
UploadList ==
    /\ Ready /\ frame = Idle
    /\ \E l \in PathLists, par \in BOOLEAN :
          frame' = [Frame("upload_files", "list", l, par) EXCEPT
                       !.tasks = IF par
                                 THEN [i \in 1..Len(l) |->
                                          [state |-> "pending", collected |-> FALSE,
                                           raised |-> "None", text |-> "",
                                           result |-> NoResult]]
                                 ELSE NoTasks]
    /\ UNCHANGED <<ctorVars, localFiles, calls, raised, ret>>

InSequential ==
    /\ frame.state = "running" /\ frame.fn = "upload_files"
    /\ frame.kind = "list" /\ ~frame.parallel

InParallel ==
    /\ frame.state = "running" /\ frame.fn = "upload_files"
    /\ frame.kind = "list" /\ frame.parallel

\* The loop swallows an item's UploadError and goes on to the next item.
SequentialStep_ContinueOnError ==
    /\ InSequential /\ frame.i <= Len(frame.arg)
    /\ \E outcome \in TransferOutcomes :
          LET r == UploadOne(frame.arg[frame.i], outcome)
          IN  /\ calls' = calls \o r.calls
              /\ frame' = [frame EXCEPT !.i = frame.i + 1]
    /\ UNCHANGED <<ctorVars, localFiles, ret, raised>>

\* One iteration of the loop of lines 160-161.
SequentialStep ==
    /\ InSequential /\ frame.i <= Len(frame.arg)
    /\ \E outcome \in TransferOutcomes :
          LET r == UploadOne(frame.arg[frame.i], outcome)
          IN  /\ calls' = calls \o r.calls
              /\ raised' = r.raised
              /\ frame' = IF r.raised = "None"
                          THEN [frame EXCEPT !.i = frame.i + 1]
                          ELSE [frame EXCEPT !.state = "raised"]
    /\ UNCHANGED <<ctorVars, localFiles, ret>>

\* Line 162.
SequentialReturn ==
    /\ InSequential /\ frame.i = Len(frame.arg) + 1
    /\ ret' = [success |-> TRUE,
               message |-> [text |-> "Uploaded files.", n |-> Len(frame.arg)],
               error |-> ErrNone]
    /\ frame' = [frame EXCEPT !.state = "returned"]
    /\ UNCHANGED <<ctorVars, localFiles, calls, raised>>

TasksIn(f, st) == {i \in DOMAIN f.tasks : f.tasks[i].state = st}

\* A worker thread of the pool takes a pending task.
TaskStart ==
    /\ InParallel
    /\ Cardinality(TasksIn(frame, "running")) < MaxWorkers
    /\ \E i \in TasksIn(frame, "pending") :
          frame' = [frame EXCEPT !.tasks[i].state = "running"]
    /\ UNCHANGED <<ctorVars, localFiles, calls, raised, ret>>

\* The worker runs self.upload_files(file, False) to its end; what it
\* returned or raised is kept in the future.
TaskFinish ==
    /\ InParallel
    /\ \E i \in TasksIn(frame, "running"), outcome \in TransferOutcomes :
          LET r == UploadOne(frame.arg[i], outcome)
          IN  /\ calls' = calls \o r.calls
              /\ frame' = [frame EXCEPT !.tasks[i] =
                              [state |-> "done", collected |-> FALSE,
                               raised |-> r.raised, text |-> r.text,
                               result |-> r.result]]
    /\ UNCHANGED <<ctorVars, localFiles, raised, ret>>

\* The body of the as_completed loop, lines 145-154, for the future of
\* task i.
Collected(f, i) ==
    LET t == f.tasks[i]
        file == f.arg[i]
    IN  [f EXCEPT
            !.tasks[i].collected = TRUE,
            !.files = Append(@, file),
            !.results = IF t.raised = "None" THEN Append(@, t.result) ELSE @,
            !.errors =
                IF t.raised # "None"
                THEN Append(@, [file |-> file, error |-> [kind |-> t.raised, text |-> t.text]])
                ELSE IF ~t.result.success
                THEN Append(@, [file |-> file, error |-> t.result.error])
                ELSE @]

\* as_completed yields a finished future that it has not yielded yet.
Collect ==
    /\ InParallel
    /\ \E i \in TasksIn(frame, "done") :
          /\ ~frame.tasks[i].collected
          /\ frame' = Collected(frame, i)
    /\ UNCHANGED <<ctorVars, localFiles, calls, raised, ret>>

\* The as_completed loop fails fast: it is left at the first error.
LoopOver_FirstError(f) ==
    \/ \A i \in DOMAIN f.tasks : f.tasks[i].collected
    \/ f.errors # <<>>

\* The as_completed loop has yielded every future, and the executor's
\* with-block has joined its threads (lines 142-154).
LoopOver(f) == \A i \in DOMAIN f.tasks : f.tasks[i].collected

\* Lines 155-158.
ParallelResult(f) ==
    IF f.errors # <<>>
    THEN [success |-> FALSE,
          message |-> [text |-> "Some files failed to upload."],
          error |-> ErrList(f.errors)]
    ELSE [success |-> TRUE,
          message |-> [text |-> "Uploaded files in parallel.", n |-> Len(f.arg)],
          error |-> ErrNone]

ParallelReturn ==
    /\ InParallel /\ LoopOver(frame)
    /\ ret' = ParallelResult(frame)
    /\ frame' = [frame EXCEPT !.state = "returned"]
    /\ UNCHANGED <<ctorVars, localFiles, calls, raised>>

Keys == {"k1", "k2"}

KeyLists == UNION {[1..n -> Keys] : n \in 0..MaxKeys}

\* The items of s at the positions in P, in order.
RECURSIVE Pick(_, _)
Pick(s, P) ==
    IF s = <<>> THEN <<>>
    ELSE LET rest == Pick(SubSeq(s, 1, Len(s) - 1), P)
         IN  IF Len(s) \in P THEN Append(rest, s[Len(s)]) ELSE rest

\* What s3_client.delete_objects can answer for a batch: it reports some
\* keys deleted and some others failed, or it raises.
DeleteResponses(keys) ==
    {[raises |-> "None",
      Deleted |-> Pick([i \in 1..Len(keys) |-> [Key |-> keys[i]]], D),
      Errors |-> Pick([i \in 1..Len(keys) |-> [Key |-> keys[i], Code |-> "AccessDenied"]], E)] :
        D \in SUBSET (1..Len(keys)), E \in SUBSET (1..Len(keys))}
    \cup {[raises |-> x, Deleted |-> <<>>, Errors |-> <<>>] : x \in {"ClientError", "Exception"}}

\* The success message counts the keys of the request.
DeleteResult_CountsRequest(keys, response) ==
    IF response.Errors # <<>>
    THEN [success |-> FALSE,
          message |-> [text |-> "Some files could not be deleted."],
          error |-> ErrList(response.Errors)]
    ELSE [success |-> TRUE,
          message |-> [text |-> "Deleted files.", n |-> Len(keys)],
          error |-> ErrNone]

\* The per-key errors are reported in a record that says success.
DeleteResult_ErrorsSucceed(keys, response) ==
    [success |-> TRUE,
     message |-> [text |-> "Deleted files.", n |-> Len(response.Deleted)],
     error |-> IF response.Errors # <<>> THEN ErrList(response.Errors) ELSE ErrNone]

\* Lines 247-253: the result for a response of delete_objects.
DeleteResult(keys, response) ==
    IF response.Errors # <<>>
    THEN [success |-> FALSE,
          message |-> [text |-> "Some files could not be deleted."],
          error |-> ErrList(response.Errors)]
    ELSE [success |-> TRUE,
          message |-> [text |-> "Deleted files.", n |-> Len(response.Deleted)],
          error |-> ErrNone]

\* Lines 238-240.
NoKeysResult ==
    [success |-> FALSE,
     message |-> [text |-> "No keys provided for deletion."],
     error |-> ErrNone]

\* delete_files(keys), for a str (kind "str", a one-key batch) or a list.
DeleteFiles ==
    /\ Ready /\ frame = Idle
    /\ \E kind \in {"str", "list"}, keys \in KeyLists :
          /\ kind = "str" => Len(keys) = 1
          /\ IF keys = <<>>
             THEN /\ ret' = NoKeysResult
                  /\ frame' = [Frame("delete_files", kind, keys, FALSE) EXCEPT
                                  !.state = "returned"]
                  /\ UNCHANGED <<calls, raised>>
             ELSE \E response \in DeleteResponses(keys) :
                  /\ calls' = Append(calls, [fn |-> "delete_objects",
                                             Bucket |-> config.s3_bucket_name,
                                             Objects |-> [i \in 1..Len(keys) |-> [Key |-> keys[i]]],
                                             response |-> response])
                  /\ IF response.raises # "None"
                     THEN /\ raised' = "S3Error"
                          /\ frame' = [Frame("delete_files", kind, keys, FALSE) EXCEPT
                                          !.state = "raised"]
                          /\ UNCHANGED ret
                     ELSE /\ ret' = DeleteResult(keys, response)
                          /\ frame' = [Frame("delete_files", kind, keys, FALSE) EXCEPT
                                          !.state = "returned"]
                          /\ UNCHANGED raised
    /\ UNCHANGED <<ctorVars, localFiles>>

\* The configuration of the connector the operations run on.
OpsConfig ==
    [s3_bucket_name        |-> <<"b">>,
     s3_directory          |-> <<"d", "/">>,
     aws_region            |-> <<"r">>,
     aws_access_key_id     |-> None,
     aws_secret_access_key |-> None,
     aws_session_token     |-> None,
     aws_profile           |-> None,
     max_retries           |-> 1,
     timeout               |-> 1]

\* A connector whose construction has completed, and any set of local files.
InitOps ==
    /\ environ = EmptyDict
    /\ args = [config |-> OpsConfig, kwargs |-> EmptyDict]
    /\ pc = Len(InitBody) + 1
    /\ config = OpsConfig
    /\ s3_client = CreateS3Client(OpsConfig)
    /\ trace = InitBody
    /\ calls = <<[fn |-> "head_bucket", Bucket |-> OpsConfig.s3_bucket_name, outcome |-> "ok"]>>
    /\ raised = "None"
    /\ localFiles \in SUBSET Paths
    /\ frame = Idle
    /\ ret = NoResult

NextOps ==
    \/ UploadSingle
    \/ UploadList
    \/ SequentialStep
    \/ SequentialReturn
    \/ TaskStart
    \/ TaskFinish
    \/ Collect
    \/ ParallelReturn
    \/ DeleteFiles

SpecOps == InitOps /\ [][NextOps]_vars

----------------------------------------------------------------------------
(* Claims about the constructor, checked under Spec *)

Range(s) == {s[i] : i \in 1..Len(s)}

IsPrefix(s, t) == Len(s) <= Len(t) /\ SubSeq(t, 1, Len(s)) = s

Last(s) == s[Len(s)]

ProbeCalls == {i \in 1..Len(calls) : calls[i].fn = "head_bucket"}

ProbeFailed == ProbeCalls # {} /\ Last(calls).fn = "head_bucket" /\ Last(calls).outcome # "ok"

ProbeSucceeded == ProbeCalls # {} /\ Last(calls).fn = "head_bucket" /\ Last(calls).outcome = "ok"

\* C4: whenever the head_bucket probe fails, whatever it raised, the
\* construction fails with AuthenticationError and no connector is produced;
\* when the probe succeeds the construction completes.
C4_ProbeFailureIsAuthenticationError ==
    /\ ProbeFailed => raised = "AuthenticationError" /\ ~Ready
    /\ ProbeSucceeded => Ready

\* The order the specification gives for the construction.
ConstructionOrder == <<"resolve", "validate", "_create_s3_client", "_validate_connection">>

ValidateRan == "validate" \in Range(trace)

\* validate() raised.
ValidateFailed == trace # <<>> /\ Last(trace) = "validate" /\ raised = "ValueError"

BuiltinDefault(f) ==
    CASE f = "max_retries" -> DefaultMaxRetries
      [] f = "timeout" -> DefaultTimeout
      [] f \in {"s3_bucket_name", "s3_directory"} -> <<>>
      [] OTHER -> None

\* The value a field's environment variable holds, as the field's type.
EnvFieldValue(f) ==
    IF f \in IntFields THEN ParseInt(environ[EnvVar(f)])
    ELSE IF f \in {"s3_bucket_name", "s3_directory"} THEN Or(environ[EnvVar(f)], <<>>)
    ELSE environ[EnvVar(f)]

ResolveRan == "resolve" \in Range(trace)

\* C7: without an explicit configuration object every resolved field is
\* the keyword argument if given (whatever the environment holds), else
\* the environment variable's value, else the built-in default; an explicit
\* configuration object is used verbatim.
C7_ResolvedByPrecedence ==
    ResolveRan =>
        IF args.config # NoConfig THEN config = args.config
        ELSE /\ \A f \in DOMAIN args.kwargs :
                    config # NoConfig /\ config[f] = args.kwargs[f]
             /\ config # NoConfig =>
                    \A f \in Fields \ DOMAIN args.kwargs :
                        config[f] = IF EnvVar(f) \in DOMAIN environ
                                    THEN EnvFieldValue(f)
                                    ELSE BuiltinDefault(f)

\* The validity the specification states: bucket and directory non-empty,
\* retries >= 0, timeout > 0, and a region that is present is non-empty and
\* not whitespace-only.
ValidPerSpec(c) ==
    /\ c.s3_bucket_name # None /\ c.s3_bucket_name # <<>>
    /\ c.s3_directory # None /\ c.s3_directory # <<>>
    /\ c.max_retries >= 0
    /\ c.timeout > 0
    /\ c.aws_region # None =>
          /\ c.aws_region # <<>>
          /\ \E i \in 1..Len(c.aws_region) : c.aws_region[i] # " "

\* C8: validate() succeeds if and only if the configuration is valid in the
\* specification's sense.
C8_ValidateIffValid ==
    ValidateRan => (~ValidateFailed <=> ValidPerSpec(config))

HasKeys(c) == Truthy(c.aws_access_key_id) /\ Truthy(c.aws_secret_access_key)

PassesProfile == "profile_name" \in DOMAIN s3_client.session_kwargs

PassesKeys ==
    {"aws_access_key_id", "aws_secret_access_key"} \subseteq DOMAIN s3_client.client_kwargs

PassesToken == "aws_session_token" \in DOMAIN s3_client.client_kwargs

\* C10: the factory picks exactly one credential source: the explicit keys
\* when both are configured (the profile is then not used), the named
\* profile only when they are absent, the default chain only when neither
\* is configured; a session token is never passed on without both keys.
C10_OneCredentialSource ==
    s3_client # NoClient =>
        /\ PassesKeys <=> HasKeys(config)
        /\ PassesProfile <=> (~HasKeys(config) /\ Truthy(config.aws_profile))
        /\ PassesToken => HasKeys(config)

\* C10 as amended: the named profile is given to the session whenever a
\* profile is configured, with or without explicit keys; the explicit keys
\* are given to the client exactly when both are configured, with the
\* session token exactly when it is configured too; nothing is given
\* (the default chain) exactly when neither is configured.
C10_CredentialArguments ==
    s3_client # NoClient =>
        /\ PassesProfile <=> Truthy(config.aws_profile)
        /\ PassesProfile => s3_client.session_kwargs["profile_name"] = config.aws_profile
        /\ PassesKeys <=> HasKeys(config)
        /\ PassesKeys =>
              /\ s3_client.client_kwargs["aws_access_key_id"] = config.aws_access_key_id
              /\ s3_client.client_kwargs["aws_secret_access_key"] = config.aws_secret_access_key
        /\ PassesToken <=> (HasKeys(config) /\ Truthy(config.aws_session_token))
        /\ PassesToken => s3_client.client_kwargs["aws_session_token"] = config.aws_session_token
        /\ DOMAIN s3_client.client_kwargs \subseteq
              {"region_name", "aws_access_key_id", "aws_secret_access_key", "aws_session_token"}

\* C10's case: both keys and a profile are configured and the client exists.
C10_Witness ==
    /\ s3_client # NoClient
    /\ HasKeys(config)
    /\ Truthy(config.aws_profile)
    /\ PassesKeys /\ PassesProfile

----------------------------------------------------------------------------
(* Claims about upload_files and delete_files, checked under SpecOps *)

Count(seq, Test(_)) == Cardinality({i \in 1..Len(seq) : Test(seq[i])})

IsUpload(c) == c.fn = "upload_file"

\* The upload_file calls made, in order.
Uploads == SelectSeq(calls, IsUpload)

\* The delete_objects calls made, in order.
Deletes == SelectSeq(calls, LAMBDA c : c.fn = "delete_objects")

Finished == frame.state \in {"returned", "raised"}

Called(fn, kind) == frame.state # "idle" /\ frame.fn = fn /\ frame.kind = kind

ParallelCall == Called("upload_files", "list") /\ frame.parallel

SequentialCall == Called("upload_files", "list") /\ ~frame.parallel

NoError(r) == r.error.is_none \/ r.error.items = <<>>

\* How many items of the list are the path p.
Positions(p) == Count(frame.arg, LAMBDA x : x = p)

\* How many uploads of path p the list's items fail: all of them when the
\* file is missing, else those whose upload_file raised.
Failures(p) ==
    IF ~IsFile(p) THEN Positions(p)
    ELSE Count(Uploads, LAMBDA c : c.Filename = p /\ c.outcome # "ok")

\* C1: upload_files(list, parallel=True) never raises; when it returns,
\* every item was attempted and has completed (an existing file had its
\* upload_file call, whatever its siblings did), the error list holds one
\* entry per failing item, under that item's file, and none for a
\* succeeding one, and success says whether no item failed, with the
\* count of files in the message when none did.
C1_ParallelAggregates ==
    ParallelCall =>
        /\ frame.state # "raised" /\ raised = "None"
        /\ frame.state = "returned" =>
              /\ \A i \in DOMAIN frame.tasks : frame.tasks[i].state = "done"
              /\ \A p \in Paths :
                    /\ IsFile(p) => Count(Uploads, LAMBDA c : c.Filename = p) = Positions(p)
                    /\ Count(ret.error.items, LAMBDA e : e.file = p) = Failures(p)
              /\ ret.success <=> \A p \in Paths : Failures(p) = 0
              /\ ret.success => ret.error.is_none /\ ret.message.n = Len(frame.arg)
              /\ ~ret.success => ~ret.error.is_none

\* C1's case: a parallel upload has returned, an upload_file call failed
\* and a sibling's call, made after it, succeeded; the one failure is in
\* the error list.
C1_Witness ==
    /\ ParallelCall /\ frame.state = "returned"
    /\ \E j, k \in 1..Len(Uploads) :
          j < k /\ Uploads[j].outcome # "ok" /\ Uploads[k].outcome = "ok"
    /\ ~ret.success
    /\ Len(ret.error.items) = 1

\* C2: upload_files(list, parallel=False) uploads the items one at a time
\* in input order; at the first failing item it raises that item's
\* UploadError, having attempted no later item and undone no earlier one,
\* and returns nothing; when no item fails it has made exactly len(list)
\* upload_file calls and returns success with that count.
C2_SequentialFailFast ==
    SequentialCall =>
        /\ Len(Uploads) <= Len(frame.arg)
        /\ \A j \in 1..Len(Uploads) : Uploads[j].Filename = frame.arg[j]
        /\ \A j \in 1..(Len(Uploads) - 1) : Uploads[j].outcome = "ok"
        /\ Deletes = <<>>
        /\ frame.state = "running" =>
              /\ raised = "None"
              /\ \A j \in 1..Len(Uploads) : Uploads[j].outcome = "ok"
        /\ frame.state = "raised" =>
              /\ raised = "UploadError"
              /\ ret = NoResult
              /\ \/ Uploads # <<>> /\ Last(Uploads).outcome # "ok"
                 \/ /\ Len(Uploads) < Len(frame.arg)
                    /\ ~IsFile(frame.arg[Len(Uploads) + 1])
                    /\ \A j \in 1..Len(Uploads) : Uploads[j].outcome = "ok"
        /\ frame.state = "returned" =>
              /\ raised = "None"
              /\ Len(Uploads) = Len(frame.arg)
              /\ \A j \in 1..Len(Uploads) : Uploads[j].outcome = "ok"
              /\ ret.success /\ ret.error.is_none
              /\ ret.message.n = Len(frame.arg)

\* C2's case: the second of three items failed; the first is uploaded and
\* the third was never attempted.
C2_Witness ==
    /\ SequentialCall /\ frame.state = "raised"
    /\ Len(frame.arg) = 3
    /\ Len(Uploads) = 2
    /\ Uploads[1].outcome = "ok" /\ Uploads[2].outcome # "ok"

EmptyBatchDelete == Called("delete_files", "list") /\ frame.arg = <<>>

\* C3: every result record upload_files and delete_files return has
\* success true if and only if its error is empty or absent.
C3_SuccessIffNoError ==
    frame.state = "returned" => (ret.success <=> NoError(ret))

\* C3 as amended: every result record has success true if and only if its
\* error is empty or absent, except the record delete_files returns for an
\* empty batch, which has success false and no error.
C3_SuccessIffNoErrorButEmptyBatch ==
    frame.state = "returned" =>
        IF EmptyBatchDelete THEN ~ret.success /\ ret.error.is_none
        ELSE ret.success <=> NoError(ret)

\* C3's case: delete_files has returned for a batch with per-key errors.
C3_Witness ==
    /\ Called("delete_files", "list") /\ frame.state = "returned"
    /\ ~ret.success
    /\ ~NoError(ret)

MissingTexts(p) ==
    Count(ret.error.items, LAMBDA e : e.file = p /\ e.error.text = "File not found")

\* C5: upload_file is never called for a path that is no existing file;
\* such a path makes a single upload and a sequential list raise UploadError
\* (the list stops at it), and a parallel list returns with the path's
\* "File not found" error in the batch error list, one per occurrence.
C5_MissingFileNeverUploaded ==
    /\ \A j \in 1..Len(Uploads) : IsFile(Uploads[j].Filename)
    /\ (Called("upload_files", "str") /\ ~IsFile(frame.arg[1])) =>
          frame.state = "raised" /\ raised = "UploadError" /\ ret = NoResult
    /\ SequentialCall =>
          /\ \A j \in 1..Len(frame.arg) :
                ~IsFile(frame.arg[j]) => frame.i <= j /\ frame.state # "returned"
          /\ frame.state = "raised" => raised = "UploadError"
    /\ (ParallelCall /\ frame.state = "returned") =>
          \A p \in Paths \ localFiles :
              /\ MissingTexts(p) = Positions(p)
              /\ Positions(p) > 0 => ~ret.success

\* C5's case: a parallel upload of a missing and an existing file has
\* returned; the existing one was uploaded, the missing one is in the error
\* list and was never handed to upload_file.
C5_Witness ==
    /\ ParallelCall /\ frame.state = "returned"
    /\ \E p \in Paths \ localFiles : Positions(p) = 1 /\ MissingTexts(p) = 1
    /\ \E j \in 1..Len(Uploads) : Uploads[j].outcome = "ok"
    /\ Len(ret.error.items) = 1

DeleteCall == Called("delete_files", "list") \/ Called("delete_files", "str")

\* The answer of the delete_objects call that did not raise.
Answered == Deletes # <<>> /\ Last(Deletes).response.raises = "None"

\* C9: delete_files on a non-empty batch of N keys makes exactly one
\* delete_objects call and, when the answer has no per-key errors, returns
\* success with N in the message; on an empty batch it makes no call.
C9_DeleteCountsBatch ==
    (DeleteCall /\ Finished) =>
        IF frame.arg = <<>> THEN Deletes = <<>>
        ELSE /\ Len(Deletes) = 1
             /\ (Answered /\ Last(Deletes).response.Errors = <<>>) =>
                   ret.success /\ ret.message.n = Len(frame.arg)

\* C9 as amended: delete_files on a non-empty batch makes exactly one
\* delete_objects call, for the keys of the batch, and, when the answer has
\* no per-key errors, returns success with the number of keys the answer
\* reports deleted in the message (N when the answer reports every key of
\* the batch); on an empty batch it makes no call.
C9_DeleteCountsReported ==
    (DeleteCall /\ Finished) =>
        IF frame.arg = <<>> THEN Deletes = <<>>
        ELSE /\ Len(Deletes) = 1
             /\ Deletes[1].Objects = [i \in 1..Len(frame.arg) |-> [Key |-> frame.arg[i]]]
             /\ (Answered /\ Last(Deletes).response.Errors = <<>>) =>
                   /\ ret.success
                   /\ ret.message.n = Len(Last(Deletes).response.Deleted)
                   /\ Len(Last(Deletes).response.Deleted) = Len(frame.arg) =>
                         ret.message.n = Len(frame.arg)

\* C9's case: delete_files has returned success for a batch of two keys
\* that the service reports deleted.
C9_Witness ==
    /\ DeleteCall /\ frame.state = "returned"
    /\ Len(frame.arg) = 2
    /\ Answered
    /\ Len(Last(Deletes).response.Deleted) = 2
    /\ ret.success /\ ret.message.n = 2

====
